---- MODULE Spec2Model ----
(***************************************************************************)
(* parsl AppFuture (parsl/dataflow/futures.py): one user-facing future     *)
(* that spans a sequence of attempt ("parent") futures of one task.        *)
(*                                                                         *)
(* The AppFuture class is a concurrent.futures.Future: its _state,         *)
(* _result, _exception and _done_callbacks are the inherited fields, and   *)
(* set_result, set_exception, add_done_callback, result, exception and     *)
(* done are the inherited methods.  The class itself adds parent,          *)
(* update_parent, cancel, cancelled, running and task_status.              *)
(*                                                                         *)
(* The code that resolves an AppFuture from its attempts lives in the      *)
(* scheduler, outside futures.py; it is modelled here from section 4.1 of  *)
(* the specification (rebind and ForwardingAlgorithm).                     *)
(***************************************************************************)
EXTENDS Integers, Sequences, FiniteSets, TLC

\* ---- bounds of the model ------------------------------------------------
MaxAttempts == 2
MaxObservers == 1
MaxRetries == 1
MaxEngines == 3
MaxBlocks == 2
MaxPerBlock == 2
MaxUnits == 1

Attempts == 1..MaxAttempts
Observers == 1..MaxObservers

\* ---- Python values ------------------------------------------------------
\* self.parent = None
None == 0

PyNone == [tag |-> "None", id |-> 0]
\* the plain value computed by attempt a
Value(a) == [tag |-> "value", id |-> a]
\* the exception raised by attempt a
Exc(a) == [tag |-> "exception", id |-> a]
\* a RemoteExceptionWrapper carrying Exc(a), returned as attempt a's result
RemoteExceptionWrapper(a) == [tag |-> "RemoteExceptionWrapper", id |-> a]
PyBool(b) == [tag |-> IF b THEN "True" ELSE "False", id |-> 0]
PyStr(s) == [tag |-> s, id |-> 0]
ValueError == [tag |-> "ValueError", id |-> 0]
TimeoutError == [tag |-> "TimeoutError", id |-> 0]

\* ---- future states ------------------------------------------------------
PENDING == "PENDING"
RUNNING == "RUNNING"
CANCELLED == "CANCELLED"
CANCELLED_AND_NOTIFIED == "CANCELLED_AND_NOTIFIED"
FINISHED == "FINISHED"

\* ---- task record --------------------------------------------------------
\* members of the task status enumeration, and the .name of each
States == {0, 1}
name(status) == CASE status = 0 -> "pending"
                  [] status = 1 -> "done"

VARIABLES
    attempts,        \* the attempt futures submitted so far, in order
    bindings,        \* the attempts passed to update_parent so far, in order
    parent,          \* AppFuture.parent
    _state,          \* AppFuture._state
    _result,         \* AppFuture._result
    _exception,      \* AppFuture._exception
    _done_callbacks, \* AppFuture._done_callbacks
    observers,       \* the observers ever passed to add_done_callback
    calls,           \* how many times each observer has been invoked
    task_struct,     \* the task record: status, and retries (<<>> = no field)
    event,           \* the last caller-side call and what it returned or raised
    waiter,          \* a caller thread inside result() without timeout
    provider,        \* IPyParallelExecutor.provider
    queue_status,    \* what the client's queue_status() reports
    killed_engines,  \* IPyParallelExecutor.killed_engines
    engines,         \* IPyParallelExecutor.engines
    scaled           \* the last scale_in or scale_out call and what it did

vars == <<attempts, bindings, parent, _state, _result, _exception,
          _done_callbacks, observers, calls, task_struct, event, waiter,
          provider, queue_status, killed_engines, engines, scaled>>

\* the executor's variables
ipp == <<provider, queue_status, killed_engines, engines, scaled>>

appfu == <<parent, _state, _result, _exception, _done_callbacks, observers, calls>>

Event(op, arg, kind, val) == [op |-> op, arg |-> arg, kind |-> kind, val |-> val]
\* no call on the AppFuture's caller-side interface was the last operation
NoCall == Event("", 0, "none", PyNone)

Last(s) == s[Len(s)]
Range(s) == {s[i] : i \in 1..Len(s)}

\* a freshly constructed concurrent.futures.Future
NewFuture == [state |-> PENDING, result |-> PyNone, exception |-> PyNone]

\* no caller thread is inside result()
NotWaiting == [pc |-> "idle", unbound |-> FALSE, got |-> PyNone]

\* ---- IPyParallelExecutor: state ------------------------------------------
\* the key of queue_status that is no engine
Unassigned == 0
Engines == 1..MaxEngines

\* no scale call yet
NotScaled ==
    [op |-> "", blocks |-> 0, n_engines |-> 0, idle |-> {}, busy |-> {},
     killed_before |-> {}, to_kill |-> {}, kind |-> "none", r |-> None,
     submitted |-> "none", engines_before |-> <<>>]

\* IPyParallelExecutor.start with no initial blocks: nothing killed, no
\* provisioned unit, and a client that reports no engine yet
InitExecutor(p) ==
    /\ provider = p
    /\ queue_status = [k \in {Unassigned} |-> 0]
    /\ killed_engines = {}
    /\ engines = <<>>
    /\ scaled = NotScaled

\* AppFuture.__init__ on a task record with or without a retry field
NewAppFuture(retries) ==
    /\ attempts = <<>>
    /\ bindings = <<>>
    /\ parent = None
    /\ _state = PENDING
    /\ _result = PyNone
    /\ _exception = PyNone
    /\ _done_callbacks = <<>>
    /\ observers = {}
    /\ calls = [o \in Observers |-> 0]
    /\ task_struct = [status |-> 0, retries |-> retries]
    /\ event = NoCall
    /\ waiter = NotWaiting

\* one AppFuture just constructed, beside a started executor that is left alone
Init ==
    /\ \E r \in {<<>>} \cup {<<n>> : n \in 0..MaxRetries} : NewAppFuture(r)
    /\ InitExecutor([present |-> TRUE, nodes_per_block |-> 1, tasks_per_node |-> 1])

\* ---- concurrent.futures.Future, as inherited by AppFuture ---------------
\* Future._invoke_callbacks: every registered callback is called
_invoke_callbacks ==
    calls' = [o \in Observers |->
                calls[o] + Cardinality({i \in 1..Len(_done_callbacks) : _done_callbacks[i] = o})]

\* Future.set_result.  From Python 3.8 a finished future raises
\* InvalidStateError; older interpreters (legacy) overwrite and notify again.
set_result(result, legacy) ==
    IF _state \in {CANCELLED, CANCELLED_AND_NOTIFIED, FINISHED} /\ ~legacy
    THEN UNCHANGED <<_state, _result, _exception, calls>>
    ELSE /\ _result' = result
         /\ _state' = FINISHED
         /\ _invoke_callbacks
         /\ UNCHANGED _exception

\* a faulty set_exception: the exception is stored as the result
set_exception_as_result(exception, legacy) ==
    IF _state \in {CANCELLED, CANCELLED_AND_NOTIFIED, FINISHED} /\ ~legacy
    THEN UNCHANGED <<_state, _result, _exception, calls>>
    ELSE /\ _result' = exception
         /\ _state' = FINISHED
         /\ _invoke_callbacks
         /\ UNCHANGED _exception

\* Future.set_exception
set_exception(exception, legacy) ==
    IF _state \in {CANCELLED, CANCELLED_AND_NOTIFIED, FINISHED} /\ ~legacy
    THEN UNCHANGED <<_state, _result, _exception, calls>>
    ELSE /\ _exception' = exception
         /\ _state' = FINISHED
         /\ _invoke_callbacks
         /\ UNCHANGED _result

\* ---- AppFuture ----------------------------------------------------------
\* a faulty update_parent: the first parent is kept, later ones are not attached
update_parent_keeps_first(fut) ==
    parent' = IF parent = None THEN fut ELSE parent

\* AppFuture.update_parent
update_parent(fut) ==
    parent' = fut

\* ---- the scheduler's side: binding and forwarding (specification 4.1) ----
\* a faulty failure test: a wrapper value is taken for a result
IsFailureRaisedOnly(fut) ==
    fut.exception # PyNone

\* the attempt resolved with a failure: a raised exception or a wrapper value
IsFailure(fut) ==
    \/ fut.exception # PyNone
    \/ fut.result.tag = "RemoteExceptionWrapper"

\* the originating exception of a failed attempt
Unwrap(fut) ==
    IF fut.exception # PyNone THEN fut.exception ELSE Exc(fut.result.id)

\* a faulty retry test: the last retry is never granted
RetriesRemainOffByOne ==
    /\ Len(task_struct.retries) = 1
    /\ task_struct.retries[1] > 1

\* the task record reports retries remaining; a record without the field reports none
RetriesRemain ==
    /\ Len(task_struct.retries) = 1
    /\ task_struct.retries[1] > 0

\* a faulty staleness test: every resolution is taken
AuthoritativeAlways(a, current) == TRUE

\* step 3: only the resolution of the current attempt of an unfinished AppFuture counts
Authoritative(a, current) ==
    /\ a = current
    /\ _state # FINISHED

\* the forwarding algorithm, run when attempt a (now fut) is seen resolved
\* while `current` is the AppFuture's parent
ForwardingAlgorithm(a, fut, current, legacy) ==
    IF ~Authoritative(a, current)
    THEN UNCHANGED <<_state, _result, _exception, calls>>
    ELSE IF ~IsFailure(fut)
    THEN set_result(fut.result, legacy)
    ELSE IF RetriesRemain
    THEN UNCHANGED <<_state, _result, _exception, calls>>
    ELSE set_exception(Unwrap(fut), legacy)

\* rebind: the scheduler attaches a submitted attempt while the AppFuture is
\* pending, registers the forwarding observer on it and calls update_parent;
\* an observer added to a resolved attempt runs at once
rebind(a) ==
    /\ a \in 1..Len(attempts)
    /\ a \notin Range(bindings)
    /\ _state # FINISHED
    /\ update_parent(a)
    /\ bindings' = Append(bindings, a)
    /\ IF attempts[a].state = FINISHED
       THEN \E legacy \in BOOLEAN : ForwardingAlgorithm(a, attempts[a], parent', legacy)
       ELSE UNCHANGED <<_state, _result, _exception, calls>>
    /\ event' = NoCall
    /\ UNCHANGED <<attempts, _done_callbacks, observers, task_struct>>
    /\ UNCHANGED <<waiter, ipp>>

\* the scheduler moves the task record's status
set_status(s) ==
    /\ s # task_struct.status
    /\ task_struct' = [task_struct EXCEPT !.status = s]
    /\ event' = NoCall
    /\ UNCHANGED <<attempts, bindings, appfu>>
    /\ UNCHANGED <<waiter, ipp>>

\* the scheduler uses up one retry
decrement_retries ==
    /\ task_struct.retries # <<>>
    /\ task_struct.retries[1] > 0
    /\ task_struct' = [task_struct EXCEPT !.retries = <<task_struct.retries[1] - 1>>]
    /\ event' = NoCall
    /\ UNCHANGED <<attempts, bindings, appfu>>
    /\ UNCHANGED <<waiter, ipp>>

\* ---- the executor's side: attempt futures --------------------------------
\* IPyParallelExecutor.submit: one more attempt future
submit ==
    /\ Len(attempts) < MaxAttempts
    /\ attempts' = Append(attempts, NewFuture)
    /\ event' = NoCall
    /\ UNCHANGED <<bindings, appfu, task_struct>>
    /\ UNCHANGED <<waiter, ipp>>

\* the executor starts running attempt a
attempt_starts(a) ==
    /\ a \in 1..Len(attempts)
    /\ attempts[a].state = PENDING
    /\ attempts' = [attempts EXCEPT ![a].state = RUNNING]
    /\ event' = NoCall
    /\ UNCHANGED <<bindings, appfu, task_struct>>
    /\ UNCHANGED <<waiter, ipp>>

\* the outcomes attempt a can resolve with
Outcomes(a) ==
    { [state |-> FINISHED, result |-> Value(a), exception |-> PyNone],
      [state |-> FINISHED, result |-> RemoteExceptionWrapper(a), exception |-> PyNone],
      [state |-> FINISHED, result |-> PyNone, exception |-> Exc(a)] }

\* attempt a resolves, once; its forwarding observer, if registered, runs
attempt_resolves(a) ==
    /\ a \in 1..Len(attempts)
    /\ attempts[a].state \in {PENDING, RUNNING}
    /\ \E fut \in Outcomes(a) :
        /\ attempts' = [attempts EXCEPT ![a] = fut]
        /\ IF a \in Range(bindings)
           THEN \E legacy \in BOOLEAN : ForwardingAlgorithm(a, fut, parent, legacy)
           ELSE UNCHANGED <<_state, _result, _exception, calls>>
    /\ event' = NoCall
    /\ UNCHANGED <<bindings, parent, _done_callbacks, observers, task_struct>>
    /\ UNCHANGED <<waiter, ipp>>

\* ---- AppFuture: the caller's side ----------------------------------------
\* a faulty add_done_callback: the observer is queued even when already finished
add_done_callback_queues_only(fn) ==
    /\ fn \notin observers
    /\ observers' = observers \cup {fn}
    /\ _done_callbacks' = Append(_done_callbacks, fn)
    /\ event' = Event("add_done_callback", fn, "return", PyNone)
    /\ UNCHANGED <<attempts, bindings, parent, _state, _result, _exception, calls, task_struct>>
    /\ UNCHANGED <<waiter, ipp>>

\* Future.add_done_callback, for an observer not registered before
add_done_callback(fn) ==
    /\ fn \notin observers
    /\ observers' = observers \cup {fn}
    /\ IF _state \notin {CANCELLED, CANCELLED_AND_NOTIFIED, FINISHED}
       THEN /\ _done_callbacks' = Append(_done_callbacks, fn)
            /\ UNCHANGED calls
       ELSE /\ calls' = [calls EXCEPT ![fn] = @ + 1]
            /\ UNCHANGED _done_callbacks
    /\ event' = Event("add_done_callback", fn, "return", PyNone)
    /\ UNCHANGED <<attempts, bindings, parent, _state, _result, _exception, task_struct>>
    /\ UNCHANGED <<waiter, ipp>>

\* Future.result(timeout): the stored outcome once finished, TimeoutError before
result ==
    /\ event' = IF _state = FINISHED
                THEN IF _exception # PyNone
                     THEN Event("result", 0, "raise", _exception)
                     ELSE Event("result", 0, "return", _result)
                ELSE Event("result", 0, "raise", TimeoutError)
    /\ UNCHANGED <<attempts, bindings, appfu, task_struct>>
    /\ UNCHANGED <<waiter, ipp>>

\* Future.exception(timeout)
exception ==
    /\ event' = IF _state = FINISHED
                THEN Event("exception", 0, "return", _exception)
                ELSE Event("exception", 0, "raise", TimeoutError)
    /\ UNCHANGED <<attempts, bindings, appfu, task_struct>>
    /\ UNCHANGED <<waiter, ipp>>

\* Future.done
done ==
    /\ event' = Event("done", 0, "return",
                      PyBool(_state \in {CANCELLED, CANCELLED_AND_NOTIFIED, FINISHED}))
    /\ UNCHANGED <<attempts, bindings, appfu, task_struct>>
    /\ UNCHANGED <<waiter, ipp>>

\* the cancel of the base class: a future not yet running is cancelled
cancel_as_base ==
    /\ IF _state \in {RUNNING, FINISHED}
       THEN /\ event' = Event("cancel", 0, "return", PyBool(FALSE))
            /\ UNCHANGED <<_state, calls>>
       ELSE /\ event' = Event("cancel", 0, "return", PyBool(TRUE))
            /\ _state' = CANCELLED
            /\ _invoke_callbacks
    /\ UNCHANGED <<attempts, bindings, parent, _result, _exception, _done_callbacks,
                   observers, task_struct>>
    /\ UNCHANGED <<waiter, ipp>>

\* AppFuture.cancel
cancel ==
    /\ event' = Event("cancel", 0, "raise", ValueError)
    /\ UNCHANGED <<attempts, bindings, appfu, task_struct>>
    /\ UNCHANGED <<waiter, ipp>>

\* AppFuture.cancelled
cancelled ==
    /\ event' = Event("cancelled", 0, "return", PyBool(FALSE))
    /\ UNCHANGED <<attempts, bindings, appfu, task_struct>>
    /\ UNCHANGED <<waiter, ipp>>

\* the running of the base class: the AppFuture's own state
running_as_base ==
    /\ event' = Event("running", 0, "return", PyBool(_state = RUNNING))
    /\ UNCHANGED <<attempts, bindings, appfu, task_struct>>
    /\ UNCHANGED <<waiter, ipp>>

\* AppFuture.running
running ==
    /\ event' = IF parent # None
                THEN Event("running", 0, "return", PyBool(attempts[parent].state = RUNNING))
                ELSE Event("running", 0, "return", PyBool(FALSE))
    /\ UNCHANGED <<attempts, bindings, appfu, task_struct>>
    /\ UNCHANGED <<waiter, ipp>>

\* a faulty task_status: a finished future reports "done"
task_status_from_done ==
    /\ event' = Event("task_status", 0, "return",
                      PyStr(IF _state = FINISHED THEN "done" ELSE name(task_struct.status)))
    /\ UNCHANGED <<attempts, bindings, appfu, task_struct>>
    /\ UNCHANGED <<waiter, ipp>>

\* a faulty task_status: asking the status of a finished future marks the task done
task_status_marks_done ==
    /\ event' = Event("task_status", 0, "return", PyStr(name(task_struct.status)))
    /\ task_struct' = IF _state = FINISHED
                      THEN [task_struct EXCEPT !.status = 1]
                      ELSE task_struct
    /\ UNCHANGED <<attempts, bindings, appfu>>
    /\ UNCHANGED <<waiter, ipp>>

\* AppFuture.task_status
task_status ==
    /\ event' = Event("task_status", 0, "return", PyStr(name(task_struct.status)))
    /\ UNCHANGED <<attempts, bindings, appfu, task_struct>>
    /\ UNCHANGED <<waiter, ipp>>

\* ---- the specification ---------------------------------------------------
Next ==
    \/ submit
    \/ \E a \in Attempts : attempt_starts(a)
    \/ \E a \in Attempts : attempt_resolves(a)
    \/ \E a \in Attempts : rebind(a)
    \/ \E s \in States : set_status(s)
    \/ decrement_retries
    \/ \E fn \in Observers : add_done_callback(fn)
    \/ result
    \/ exception
    \/ done
    \/ cancel
    \/ cancelled
    \/ running
    \/ task_status

Spec == Init /\ [][Next]_vars

\* ---- IPyParallelExecutor: scaling ----------------------------------------
\* the AppFuture's and the waiting caller's variables
futures == <<attempts, bindings, appfu, task_struct, event, waiter>>

\* the number of engines `blocks` blocks stand for
n_engines(blocks) ==
    blocks * provider.nodes_per_block * provider.tasks_per_node

\* a faulty all_engines: engines already killed are kept
all_engines_with_killed(qs, killed) ==
    {k \in DOMAIN qs : k # Unassigned}

\* all_engines: the reported engines not yet killed
all_engines(qs, killed) ==
    {k \in DOMAIN qs : k # Unassigned /\ k \notin killed}

\* idle_engines: those with no assigned task
idle_engines(qs, killed) ==
    {id_ \in all_engines(qs, killed) : qs[id_] = 0}

\* busy_engines
busy_engines(qs, killed) ==
    all_engines(qs, killed) \ idle_engines(qs, killed)

\* a faulty spill_over: the whole target spills over
spill_over_whole_target(n, n_idle) == n

\* spill_over = max(0, n_engines - len(idle_engines))
spill_over(n, n_idle) ==
    IF n - n_idle > 0 THEN n - n_idle ELSE 0

\* lst[:n] for a list made of the set S, whose order is not fixed: any
\* min(n, len) elements
Slice(S, n) ==
    {T \in SUBSET S : Cardinality(T) = IF n < Cardinality(S) THEN n ELSE Cardinality(S)}

\* IPyParallelExecutor.scale_in
scale_in(blocks) ==
    /\ IF ~provider.present
       THEN /\ scaled' = [NotScaled EXCEPT !.op = "scale_in", !.blocks = blocks,
                                           !.kind = "return",
                                           !.killed_before = killed_engines]
            /\ UNCHANGED killed_engines
       ELSE LET idle == idle_engines(queue_status, killed_engines)
                busy == busy_engines(queue_status, killed_engines)
                spill == spill_over(n_engines(blocks), Cardinality(idle))
            IN \E I \in Slice(idle, blocks), B \in Slice(busy, spill) :
                  /\ killed_engines' = killed_engines \cup (I \cup B)
                  /\ scaled' = [NotScaled EXCEPT !.op = "scale_in", !.blocks = blocks,
                                                 !.n_engines = n_engines(blocks),
                                                 !.idle = idle, !.busy = busy,
                                                 !.killed_before = killed_engines,
                                                 !.to_kill = I \cup B,
                                                 !.kind = "return"]
    /\ UNCHANGED <<provider, queue_status, engines, futures>>

\* IPyParallelExecutor.scale_out; provider.submit yields a handle (a positive
\* job id), yields None, or raises
scale_out ==
    /\ Len(engines) < MaxUnits
    /\ IF ~provider.present
       THEN /\ scaled' = [NotScaled EXCEPT !.op = "scale_out", !.kind = "return",
                                           !.engines_before = engines]
            /\ UNCHANGED engines
       ELSE \E submitted \in {"handle", "none", "raise"} :
               LET r == IF submitted = "handle" THEN Len(engines) + 1 ELSE None
               IN /\ engines' = IF submitted = "raise" THEN engines ELSE Append(engines, r)
                  /\ scaled' = [NotScaled EXCEPT
                                   !.op = "scale_out",
                                   !.kind = IF submitted = "raise" THEN "raise" ELSE "return",
                                   !.r = r,
                                   !.submitted = submitted,
                                   !.engines_before = engines]
    /\ UNCHANGED <<provider, queue_status, killed_engines, futures>>

\* ---- the engines, as the client reports them ------------------------------
\* `scaled` describes the scaling call just made; any other step clears it
\* a new engine registers with the controller
engine_joins(e) ==
    /\ e \notin DOMAIN queue_status
    /\ e \notin killed_engines
    /\ queue_status' = [k \in DOMAIN queue_status \cup {e} |->
                          IF k = e THEN 0 ELSE queue_status[k]]
    /\ scaled' = NotScaled
    /\ UNCHANGED <<provider, killed_engines, engines, futures>>

\* an engine that was shut down stops being reported
engine_leaves(e) ==
    /\ e \in DOMAIN queue_status
    /\ e \in killed_engines
    /\ queue_status' = [k \in DOMAIN queue_status \ {e} |-> queue_status[k]]
    /\ scaled' = NotScaled
    /\ UNCHANGED <<provider, killed_engines, engines, futures>>

\* a task is assigned to an engine
task_assigned(e) ==
    /\ e \in DOMAIN queue_status
    /\ e # Unassigned
    /\ queue_status[e] = 0
    /\ queue_status' = [queue_status EXCEPT ![e] = 1]
    /\ scaled' = NotScaled
    /\ UNCHANGED <<provider, killed_engines, engines, futures>>

\* an engine finishes its task
task_finishes(e) ==
    /\ e \in DOMAIN queue_status
    /\ e # Unassigned
    /\ queue_status[e] = 1
    /\ queue_status' = [queue_status EXCEPT ![e] = 0]
    /\ scaled' = NotScaled
    /\ UNCHANGED <<provider, killed_engines, engines, futures>>

\* a started executor with or without a provider, beside an untouched AppFuture
InitScaling ==
    /\ NewAppFuture(<<>>)
    /\ \E present \in BOOLEAN, npb \in 1..MaxPerBlock, tpn \in 1..MaxPerBlock :
          /\ (~present => npb = 1 /\ tpn = 1)
          /\ InitExecutor([present |-> present, nodes_per_block |-> npb,
                           tasks_per_node |-> tpn])

NextScaling ==
    \/ \E blocks \in 0..MaxBlocks : scale_in(blocks)
    \/ scale_out
    \/ \E e \in Engines : engine_joins(e)
    \/ \E e \in Engines : engine_leaves(e)
    \/ \E e \in Engines : task_assigned(e)
    \/ \E e \in Engines : task_finishes(e)

SpecScaling == InitScaling /\ [][NextScaling]_vars

\* ---- AppFuture used directly: update_parent called by any holder, and a
\* caller blocked in result() or exception() --------------------------------
\* update_parent called as a method, in whatever state the AppFuture is; no
\* forwarding observer is registered on fut by it
call_update_parent(fut) ==
    /\ fut \in 1..Len(attempts)
    /\ update_parent(fut)
    /\ event' = Event("update_parent", fut, "return", PyNone)
    /\ UNCHANGED <<attempts, bindings, _state, _result, _exception, _done_callbacks,
                   observers, calls, task_struct>>
    /\ UNCHANGED <<waiter, ipp>>

\* Future.result() / Future.exception() without timeout on an unfinished
\* future: the calling thread waits on the future's condition; `unbound`
\* notes whether no attempt had been passed to update_parent by then
caller_blocks(op) ==
    /\ waiter.pc = "idle"
    /\ _state \notin {CANCELLED, CANCELLED_AND_NOTIFIED, FINISHED}
    /\ waiter' = [pc |-> op, unbound |-> parent = None, got |-> PyNone]
    /\ UNCHANGED <<attempts, bindings, appfu, task_struct, event, ipp>>

\* the waiting thread is notified once the future is finished and the call
\* returns or raises
caller_released ==
    /\ waiter.pc \in {"result", "exception"}
    /\ _state = FINISHED
    /\ waiter' = IF waiter.pc = "result" /\ _exception # PyNone
                 THEN [waiter EXCEPT !.pc = "raised", !.got = _exception]
                 ELSE IF waiter.pc = "result"
                 THEN [waiter EXCEPT !.pc = "returned", !.got = _result]
                 ELSE [waiter EXCEPT !.pc = "returned", !.got = _exception]
    /\ UNCHANGED <<attempts, bindings, appfu, task_struct, event, ipp>>

NextDirect ==
    \/ submit
    \/ \E a \in Attempts : attempt_starts(a)
    \/ \E a \in Attempts : attempt_resolves(a)
    \/ \E a \in Attempts : rebind(a)
    \/ \E a \in Attempts : call_update_parent(a)
    \/ \E op \in {"result", "exception"} : caller_blocks(op)
    \/ caller_released
    \/ running

SpecDirect == Init /\ [][NextDirect]_vars

\* ---- vocabulary of the properties ----------------------------------------
\* the attempt future resolved with a value that is not a RemoteExceptionWrapper
Succeeded(fut) ==
    /\ fut.state = FINISHED
    /\ fut.exception = PyNone
    /\ fut.result.tag = "value"

\* the attempt future resolved with a raised exception or a RemoteExceptionWrapper value
Failed(fut) ==
    /\ fut.state = FINISHED
    /\ (fut.exception.tag = "exception" \/ fut.result.tag = "RemoteExceptionWrapper")

\* the exception a failed attempt originated from
Originating(fut) ==
    IF fut.result.tag = "RemoteExceptionWrapper" THEN Exc(fut.result.id) ELSE fut.exception

\* the task record carries a retry field with a positive count
ReportsRetries ==
    /\ task_struct.retries # <<>>
    /\ task_struct.retries[1] >= 1

\* attempt a was bound with update_parent and another attempt was bound after it
Superseded(a, bound) ==
    /\ a \in Range(bound)
    /\ a # Last(bound)

\* this step resolves attempt a
Resolves(a) ==
    /\ a \in 1..Len(attempts)
    /\ attempts[a].state # FINISHED
    /\ attempts'[a].state = FINISHED

\* this step binds attempt a
Binds(a) ==
    bindings' = Append(bindings, a)

C2_RetrySuppression ==
    /\ (/\ ReportsRetries
        /\ \A i \in 1..Len(bindings) :
              attempts[bindings[i]].state = FINISHED => Failed(attempts[bindings[i]]))
       => /\ _state = PENDING
          /\ _result = PyNone
          /\ _exception = PyNone
          /\ \A o \in Observers : calls[o] = 0
          /\ (event.op = "done" => event.val = PyBool(FALSE))
    /\ _state = FINISHED =>
          /\ bindings # <<>>
          /\ attempts[Last(bindings)].state = FINISHED
          /\ (Failed(attempts[Last(bindings)]) => ~ReportsRetries)

\* two attempts bound in turn have failed, retries remain, an observer waits
\* uninvoked and done() has just returned False
C2_Witness ==
    /\ Len(bindings) = 2
    /\ Failed(attempts[bindings[1]])
    /\ Failed(attempts[bindings[2]])
    /\ ReportsRetries
    /\ observers # {}
    /\ _state = PENDING
    /\ event.op = "done"

C4_NoWrapperAsResult ==
    /\ _result.tag # "RemoteExceptionWrapper"
    /\ (event.op = "result" /\ event.kind = "return" =>
            event.val.tag # "RemoteExceptionWrapper")
    /\ (/\ _state = FINISHED
        /\ bindings # <<>>
        /\ attempts[Last(bindings)].result.tag = "RemoteExceptionWrapper")
       => /\ _exception = Exc(attempts[Last(bindings)].result.id)
          /\ _result = PyNone
          /\ (event.op = "result" => event.kind = "raise" /\ event.val = _exception)

\* the AppFuture finished on a wrapper value and result() raised the exception
C4_Witness ==
    /\ _state = FINISHED
    /\ bindings # <<>>
    /\ attempts[Last(bindings)].result.tag = "RemoteExceptionWrapper"
    /\ event.op = "result"
    /\ event.kind = "raise"

\* C5: once the AppFuture is finished, no step changes its state, result or
\* exception; no observer is notified twice; and every result() or exception()
\* call on a finished AppFuture returns the stored outcome.
C5_SingleTerminalResolution ==
    /\ [][_state = FINISHED => UNCHANGED <<_state, _result, _exception>>]_vars
    /\ [](\A o \in Observers : calls[o] <= 1)
    /\ [](_state = FINISHED =>
            /\ (event.op = "result" =>
                   IF _exception # PyNone
                   THEN event.kind = "raise" /\ event.val = _exception
                   ELSE event.kind = "return" /\ event.val = _result)
            /\ (event.op = "exception" => event.kind = "return" /\ event.val = _exception))

\* a superseded attempt has resolved with a value other than the result the
\* finished AppFuture holds, and result() returned the held one
C5_Witness ==
    /\ _state = FINISHED
    /\ _result.tag = "value"
    /\ \E a \in Range(bindings) :
          /\ Superseded(a, bindings)
          /\ Succeeded(attempts[a])
          /\ attempts[a].result # _result
    /\ event.op = "result"
    /\ event.val = _result

\* C6: the resolution of an attempt that was bound and then superseded changes
\* neither state, result, exception nor observers of the AppFuture; every step
\* that changes them resolves, or binds, the most recently bound attempt.
C6_StaleAttemptsIgnored ==
    [][/\ \A a \in Attempts :
            (Resolves(a) /\ Superseded(a, bindings))
               => UNCHANGED <<_state, _result, _exception, calls>>
       /\ <<_state, _result, _exception>>' # <<_state, _result, _exception>>
            => \E a \in Attempts :
                  /\ Resolves(a) \/ Binds(a)
                  /\ a = Last(bindings')]_vars

\* a superseded attempt has resolved with a value and the AppFuture is pending
C6_Witness ==
    /\ _state = PENDING
    /\ \E a \in Range(bindings) :
          /\ Superseded(a, bindings)
          /\ Succeeded(attempts[a])
    /\ attempts[Last(bindings)].state # FINISHED

\* C7: cancel() can be called in every reachable state, always raises (it never
\* returns a value), and leaves the AppFuture's state, result, exception,
\* parent and observers, the attempts and the task record as they were.
C7_CancelAlwaysFails ==
    /\ [](ENABLED cancel)
    /\ [](event.op = "cancel" => event.kind = "raise" /\ event.val = ValueError)
    /\ [][event'.op = "cancel" =>
            UNCHANGED <<parent, _state, _result, _exception, _done_callbacks,
                        observers, calls, attempts, bindings, task_struct>>]_vars

\* cancel() was called while the bound attempt is running and an observer waits
C7_Witness ==
    /\ event.op = "cancel"
    /\ parent # None
    /\ attempts[parent].state = RUNNING
    /\ _done_callbacks # <<>>
    /\ _state = PENDING

\* C8: an observer is invoked at most once, only on a finished AppFuture that
\* holds its result or exception, never while the AppFuture is pending (so not
\* for a suppressed failure), and never unregistered; every observer registered
\* on an AppFuture that is finished has been invoked exactly once, whether it
\* was registered before finalization or after.
C8_ObserverExactlyOnce ==
    \A o \in Observers :
        /\ calls[o] <= 1
        /\ (calls[o] = 1 =>
               /\ o \in observers
               /\ _state = FINISHED
               /\ (_result # PyNone \/ _exception # PyNone))
        /\ (o \in observers /\ _state = FINISHED => calls[o] = 1)

\* an observer registered before finalization saw a failure suppressed and was
\* invoked once when a later attempt finalized the AppFuture
C8_Witness ==
    /\ Len(bindings) = 2
    /\ Failed(attempts[bindings[1]])
    /\ _state = FINISHED
    /\ \E o \in Observers :
          /\ calls[o] = 1
          /\ \E i \in 1..Len(_done_callbacks) : _done_callbacks[i] = o

\* C9: running() can be called in every reachable state, returns False when no
\* attempt has been bound and otherwise whether the most recently bound attempt
\* is running, and changes nothing.
C9_RunningDelegates ==
    /\ [](ENABLED running)
    /\ [](event.op = "running" =>
            /\ event.kind = "return"
            /\ event.val = PyBool(bindings # <<>> /\ attempts[Last(bindings)].state = RUNNING))
    /\ [][event'.op = "running" =>
            UNCHANGED <<parent, _state, _result, _exception, _done_callbacks,
                        observers, calls, attempts, bindings, task_struct>>]_vars

\* running() returned True for the second bound attempt while the first is not running
C9_Witness ==
    /\ event.op = "running"
    /\ event.val = PyBool(TRUE)
    /\ Len(bindings) = 2
    /\ attempts[bindings[1]].state # RUNNING

\* C10: task_status() can be called in every reachable state, returns the name
\* of the status the task record holds at that moment whether or not the
\* AppFuture is done, and changes nothing.
C10_TaskStatusDecoupled ==
    /\ [](ENABLED task_status)
    /\ [](event.op = "task_status" =>
            /\ event.kind = "return"
            /\ (task_struct.status = 0 => event.val = PyStr("pending"))
            /\ (task_struct.status = 1 => event.val = PyStr("done")))
    /\ [][event'.op = "task_status" =>
            UNCHANGED <<parent, _state, _result, _exception, _done_callbacks,
                        observers, calls, attempts, bindings, task_struct>>]_vars

\* task_status() returned "pending" on a finished AppFuture
C10_Witness ==
    /\ event.op = "task_status"
    /\ event.val = PyStr("pending")
    /\ _state = FINISHED

\* ---- vocabulary of the scaling properties ---------------------------------
\* what a scale_in call faced, read from the client's report and the killed
\* set it found: scale_in changes neither the report nor the provider
Reported == DOMAIN queue_status \ {Unassigned}

LiveBefore == Reported \ scaled.killed_before

IdleBefore == {e \in LiveBefore : queue_status[e] = 0}

BusyBefore == {e \in LiveBefore : queue_status[e] > 0}

\* blocks * nodes_per_block * tasks_per_node of the call just made
Target == scaled.blocks * provider.nodes_per_block * provider.tasks_per_node

Min(a, b) == IF a < b THEN a ELSE b

\* C11: a scale_in call never selects an engine that was already in
\* killed_engines, whether or not the client still reports it, and no step ever
\* removes an id from killed_engines.
C11_KilledNeverReselected ==
    /\ [](scaled.op = "scale_in" => scaled.to_kill \cap scaled.killed_before = {})
    /\ [][killed_engines \subseteq killed_engines']_vars

\* scale_in selected an engine while an idle engine it had killed earlier was
\* still reported
C11_Witness ==
    /\ scaled.op = "scale_in"
    /\ scaled.to_kill # {}
    /\ \E e \in scaled.killed_before : e \in Reported /\ queue_status[e] = 0

\* C12: scale_in selects a busy engine only when the idle live engines are
\* fewer than the target engine count, and never more busy engines than that
\* shortfall.
C12_BusyOnlyForShortfall ==
    scaled.op = "scale_in" =>
        LET selected_busy == {e \in scaled.to_kill : e \in Reported /\ queue_status[e] > 0}
        IN /\ (selected_busy # {} => Cardinality(IdleBefore) < Target)
           /\ (selected_busy # {} =>
                  Cardinality(selected_busy) <= Target - Cardinality(IdleBefore))

\* scale_in spilled over into one busy engine and left another busy one alone
C12_Witness ==
    /\ scaled.op = "scale_in"
    /\ scaled.to_kill \cap BusyBefore # {}
    /\ BusyBefore \ scaled.to_kill # {}
    /\ IdleBefore # {}

\* C13: with a provider, scale_in(blocks) selects and adds to killed_engines
\* exactly min(target engine count, number of live engines) engines.
C13_SelectsTargetCount ==
    (scaled.op = "scale_in" /\ provider.present) =>
        /\ Cardinality(scaled.to_kill) = Min(Target, Cardinality(LiveBefore))
        /\ killed_engines = scaled.killed_before \cup scaled.to_kill

\* C14: with a provider, scale_out either returns a handle that it has appended
\* to the engine list, or raises and leaves the engine list as it was.
C14_ScaleOutHandleOrError ==
    (scaled.op = "scale_out" /\ provider.present) =>
        \/ /\ scaled.kind = "return"
           /\ scaled.r # None
           /\ engines = Append(scaled.engines_before, scaled.r)
        \/ /\ scaled.kind = "raise"
           /\ engines = scaled.engines_before

\* C20: a scale_in call that selects a busy engine has selected every idle
\* live engine.
C20_IdleExhaustedFirst ==
    (scaled.op = "scale_in" /\ scaled.to_kill \cap BusyBefore # {}) =>
        IdleBefore \subseteq scaled.to_kill

\* C16: the AppFuture's state is always pending, running or finished, never
\* CANCELLED or CANCELLED_AND_NOTIFIED, whatever cancel calls, bindings and
\* attempt resolutions came before, and cancelled() returns False.
C16_NeverCancelled ==
    /\ _state \in {PENDING, RUNNING, FINISHED}
    /\ (event.op = "cancelled" => event.kind = "return" /\ event.val = PyBool(FALSE))

\* cancel() was called on a pending AppFuture after two bindings and the
\* resolution of the first attempt
C16_Witness ==
    /\ event.op = "cancel"
    /\ Len(bindings) = 2
    /\ attempts[bindings[1]].state = FINISHED
    /\ _state = PENDING

\* C18: a step that changes the task record is no call of an AppFuture method,
\* no binding with update_parent and no resolution of an attempt: the status
\* and the retries field are the same after each of those as before.
C18_TaskRecordUntouched ==
    [][task_struct' # task_struct =>
          /\ event'.op = ""
          /\ \A a \in Attempts : ~Resolves(a) /\ ~Binds(a)]_vars

\* task_status() was called on an AppFuture that a failed attempt finished
\* while the record said no retries remain, and the record still says pending
C18_Witness ==
    /\ event.op = "task_status"
    /\ _state = FINISHED
    /\ _exception # PyNone
    /\ task_struct = [status |-> 0, retries |-> <<0>>]

\* C15: an update_parent call on a finished AppFuture leaves the current
\* attempt as it was.
C15_NoRebindAfterFinished ==
    [][(_state = FINISHED /\ event'.op = "update_parent") => parent' = parent]_vars

\* C17: a caller that blocked in result() or exception() before any attempt
\* was bound returns only from a finished AppFuture, and once the attempt
\* passed to update_parent has resolved with a finalizing outcome the AppFuture
\* holds that outcome for the blocked call to return.
C17_BlockedCallerReleased ==
    /\ (waiter.pc \in {"returned", "raised"} => _state = FINISHED)
    /\ (/\ waiter.pc \in {"result", "exception"}
        /\ waiter.unbound
        /\ parent # None
        /\ Succeeded(attempts[parent])) =>
            (_state = FINISHED /\ _result = attempts[parent].result)
    /\ (/\ waiter.pc \in {"result", "exception"}
        /\ waiter.unbound
        /\ parent # None
        /\ Failed(attempts[parent])
        /\ ~ReportsRetries) =>
            (_state = FINISHED /\ _exception = Originating(attempts[parent]))

====
